---------------------------- MODULE Spec2Model ----------------------------
(***************************************************************************)
(* Model of the leapp actor core:                                          *)
(*   - leapp/repository/actor_definition.py: ActorDefinition (add,         *)
(*     discover, metadata accessors, injected_context), inspect_actor and  *)
(*     ActorCallContext.run, with the discovery / execution subprocesses   *)
(*     and the multiprocessing.Queue(1) result channel;                    *)
(*   - leapp/models/fields/__init__.py: the field type system.             *)
(* Three specifications share the module: Spec (discovery and execution),  *)
(* SpecCtx (one process running injected_context regions) and SpecField    *)
(* (field validation and conversion on bounded inputs).                    *)
(***************************************************************************)
EXTENDS Integers, Sequences, FiniteSets, TLC

\* ------------------------------------------------------------------ bounds
\* Operations (load, discover, run) the parent process starts in SpecProc.
MaxOps == 3
\* Discovery subprocesses started in a run of the model.
MaxSpawn == 2
\* Execution subprocesses started in a run of the model.
MaxRuns == 1
\* Resources added with add() in a run of Spec.
MaxAdds == 1
\* Resources added with add() in a run of SpecCtx.
MaxCtxAdds == 2
\* injected_context regions entered in a run of SpecCtx.
MaxRegions == 2

VARIABLES
    \* ---- Spec: the parent process and its subprocesses
    definitions,   \* ActorDefinition._definitions, per definition: kind -> paths
    discovery,     \* ActorDefinition._discovery, per definition
    tagActors,     \* Tag.actors, per tag: tuple of definitions
    pc,            \* where the parent is: idle / join / get / run_join
    call,          \* the operation the parent is in
    child,         \* the discovery subprocess of the current discover()
    queue,         \* the Queue(1) of the current discover()
    runchild,      \* the execution subprocess of the current run()
    outcome,       \* what the last finished operation returned or raised
    hist,          \* observation counters (not program state)
    \* ---- SpecCtx: one process running injected_context regions
    resources,     \* ActorDefinition._definitions of the process's definition
    environ,       \* os.environ: PATH, LEAPP_FILES, LEAPP_TOOLS
    cwd,           \* os.getcwd()
    actorlib,      \* the names in leapp.libraries.actor.__dict__
    sysmodules,    \* sys.modules, for the names libraries may provide
    region,        \* the frame of the active injected_context region
    ctxres,        \* how the last region, or the last add(), ended
    pre,           \* the process state when the last region was entered
    build,         \* the interpreter: whether dict.keys() is a live view
    \* ---- SpecField: one field of a model and one value going through it
    fld,           \* the field: class and constructor arguments
    fsrc,          \* the entry of the source mapping / the source attribute
    fobj,          \* the attribute of the target instance
    fdict,         \* the entry of the target mapping
    ferr,          \* the exception the last operation raised
    fop,           \* the last operation
    forig,         \* the model value to_builtin was given
    \* ---- SpecProc: the processes of load(), discover() and run()
    setup,         \* the actor directory and the interpreter's start method
    proc,          \* per process: where it is, its regions, its copy of the definition
    nops           \* operations the parent has started

actorVars == <<definitions, discovery, tagActors, pc, call, child, queue,
               runchild, outcome, hist>>
ctxVars == <<resources, environ, cwd, actorlib, sysmodules, region, ctxres, pre,
             build>>

fieldVars == <<fld, fsrc, fobj, fdict, ferr, fop, forig>>

procVars == <<setup, proc, nops>>

vars == <<actorVars, ctxVars, fieldVars, procVars>>


\* ------------------------------------------------------- Spec: the universe
Defs == {"d1", "d2"}
Tags == {"t1", "t2"}
\* DefinitionKind.ACTOR_WHITELIST and one kind outside it.
ActorWhitelist == {"tools", "libraries", "files", "tests"}
AllKinds == ActorWhitelist \cup {"models"}
Paths == {"p"}
\* The kinds add() is called with: one of the whitelist, one outside it.
AddKinds == {"tools", "models"}
\* The keys of a discovery record.
MetaKeys == {"name", "class_name", "description", "dialogs", "consumes",
             "produces", "tags"}
\* Exit codes of a subprocess; NoCode is Process.exitcode of a live process (None).
ExitCodes == {0, 1, 2}
NoCode == -1

NoRecord == [none |-> TRUE]
NoCall == [op |-> "none"]
NoProcess == [st |-> "none", code |-> NoCode]
NotRead == <<"not read">>

\* get_actor_metadata(actor): one entry per actor class found by the child.
Meta(n, tags) ==
    [name |-> n, class_name |-> <<"class", n>>, description |-> <<"descr", n>>,
     dialogs |-> <<>>, consumes |-> <<"in", n>>, produces |-> <<"out", n>>,
     tags |-> tags]
Records == {Meta("a", <<"t1">>), Meta("a", <<"t1", "t2">>),
            Meta("b", <<"t2", "t2">>), Meta("b", <<>>)}
\* What inspect_actor may put on the queue: the list of matching entries.
Results == {<<>>} \cup {<<r>> : r \in Records}
              \cup {<<r1, r2>> : r1 \in {Meta("a", <<"t1">>)}, r2 \in Records}

Directory(d) == <<"dir", d>>

\* ------------------------------------------------------ Spec: code fragments
\* `if not self._discovery` (a record is a non-empty dict, hence truthy).
CachedNever(d) == FALSE
Cached(d) == discovery[d] # NoRecord

\* `if p.exitcode != 0`
ExitFailedNever(code) == FALSE
ExitFailed(code) == code # 0

\* p.join() returns once the process has terminated.
JoinedAlways(p) == TRUE
Joined(p) == p.st = "exited"

\* `if not result` / `if len(result) > 1`
ResultKindLax(result) ==
    IF result = <<>> THEN "noresult" ELSE "one"
ResultKind(result) ==
    IF result = <<>> THEN "noresult"
    ELSE IF Len(result) > 1 THEN "multiple" ELSE "one"

\* `if self not in tag.actors: tag.actors += (self,)`
InTuple(x, tup) == \E i \in 1..Len(tup) : tup[i] = x
RegisterOneAlways(ta, d, tag) == [ta EXCEPT ![tag] = Append(@, d)]
RegisterOne(ta, d, tag) ==
    IF InTuple(d, ta[tag]) THEN ta ELSE [ta EXCEPT ![tag] = Append(@, d)]

\* `for tag in self._discovery['tags']: ...`
RECURSIVE RegisterTags(_, _, _)
RegisterTags(ta, d, tags) ==
    IF tags = <<>> THEN ta
    ELSE RegisterTags(RegisterOne(ta, d, Head(tags)), d, Tail(tags))

\* Queue(1).put on the child's side and Queue.get on the parent's side.
QueuePutTwice(q, item) == Append(Append(q, item), item)
QueuePut(q, item) == Append(q, item)
QueueSize == 1

\* The message of LeappRuntimeError: the actor's name and the exit code.
RuntimeMessage(name, code) == <<name, code>>

HistInit == [spawned |-> 0, runs |-> 0, adds |-> 0, sends |-> 0]

\* What a finished operation leaves for its caller: a return value or an
\* exception (kind, val), and, as an observation of the call, whether it ran a
\* discovery subprocess (fresh), that subprocess's exit code (code), what the
\* queue held when the exit code was read (held), what q.get() returned (got),
\* the number of puts and gets, and the exit code of run()'s subprocess (rcode).
Outcome(kind, op, d, val) ==
    [kind |-> kind, op |-> op, d |-> d, val |-> val, fresh |-> FALSE,
     code |-> NoCode, held |-> <<>>, got |-> NotRead, sends |-> 0, recvs |-> 0,
     rcode |-> NoCode]

NoOutcome == Outcome("none", "none", "none", <<>>)

Observed(o, c, held, got, recvs) ==
    [o EXCEPT !.fresh = TRUE, !.code = child.code, !.held = held, !.got = got,
              !.sends = hist.sends, !.recvs = recvs, !.rcode = c.code]

InitActor ==
    /\ definitions = [d \in Defs |-> [k \in ActorWhitelist |-> <<>>]]
    /\ discovery = [d \in Defs |-> NoRecord]
    /\ tagActors = [t \in Tags |-> <<>>]
    /\ pc = "idle"
    /\ call = NoCall
    /\ child = NoProcess
    /\ queue = <<>>
    /\ runchild = NoProcess
    /\ outcome = NoOutcome
    /\ hist = HistInit

\* What the call hands to its caller once discover() has a record: discover()
\* returns the record, an accessor one entry of it, and run() (which read `name`
\* for its message) raises LeappRuntimeError.
Finish(c, rec) ==
    IF c.op = "discover" THEN Outcome("return", c.op, c.d, rec)
    ELSE IF c.op = "run"
      THEN [Outcome("LeappRuntimeError", c.op, c.d, RuntimeMessage(rec.name, c.code))
              EXCEPT !.rcode = c.code]
    ELSE Outcome("return", c.op, c.d, rec[c.op])

\* The operation is over: its frame, with p and q, is gone.
Return(o) ==
    /\ outcome' = o
    /\ pc' = "idle"
    /\ call' = NoCall
    /\ child' = NoProcess
    /\ queue' = <<>>
    /\ runchild' = NoProcess
    /\ hist' = [hist EXCEPT !.sends = 0]

\* discover(), lines 152-157 and 173: return the cached record, or start the
\* subprocess with a new Queue(1) and block in p.join().
EnterDiscover(c) ==
    IF Cached(c.d)
      THEN Return(Finish(c, discovery[c.d]))
      ELSE /\ hist.spawned < MaxSpawn
           /\ child' = [st |-> "loading", code |-> NoCode]
           /\ queue' = <<>>
           /\ pc' = "join"
           /\ call' = c
           /\ outcome' = NoOutcome
           /\ hist' = [hist EXCEPT !.spawned = @ + 1, !.sends = 0]
           /\ UNCHANGED runchild

\* add, line 119: self._definitions.setdefault(kind, []).append(path)
AddPathFront(paths, path) == <<path>> \o paths
AddPath(paths, path) == Append(paths, path)

\* ActorDefinition.add
Add(d, kind, path) ==
    /\ UNCHANGED <<ctxVars, fieldVars, procVars>>
    /\ pc = "idle"
    /\ hist.adds < MaxAdds
    /\ IF kind \notin ActorWhitelist
         THEN /\ outcome' = Outcome("UnsupportedDefinitionKindError", "add", d, kind)
              /\ UNCHANGED definitions
         ELSE /\ definitions' = [definitions EXCEPT ![d][kind] = AddPath(@, path)]
              /\ outcome' = Outcome("return", "add", d, <<>>)
    /\ hist' = [hist EXCEPT !.adds = @ + 1]
    /\ UNCHANGED <<discovery, tagActors, pc, call, child, queue, runchild>>

\* The accessors tools / libraries / files / tests and directory.
ReadResource(d, kind) ==
    /\ UNCHANGED <<ctxVars, fieldVars, procVars>>
    /\ pc = "idle"
    /\ outcome' = Outcome("return", kind, d,
                          IF kind = "directory" THEN Directory(d)
                          ELSE definitions[d][kind])
    /\ UNCHANGED <<definitions, discovery, tagActors, pc, call, child, queue,
                   runchild, hist>>

\* A call of discover().
Discover(d) ==
    /\ UNCHANGED <<ctxVars, fieldVars, procVars>>
    /\ pc = "idle"
    /\ EnterDiscover([op |-> "discover", d |-> d, code |-> NoCode])
    /\ UNCHANGED <<definitions, discovery, tagActors>>

\* A read of dialogs, consumes, produces, tags, class_name, name or description.
ReadMeta(d, key) ==
    /\ UNCHANGED <<ctxVars, fieldVars, procVars>>
    /\ pc = "idle"
    /\ EnterDiscover([op |-> key, d |-> d, code |-> NoCode])
    /\ UNCHANGED <<definitions, discovery, tagActors>>

\* inspect_actor: definition.load() or the collection of metadata ends the child
\* without a put (an exception: code 1; sys.exit(n) in the actor module: n).
ChildDiesEarly(code) ==
    /\ UNCHANGED <<ctxVars, fieldVars, procVars>>
    /\ child.st = "loading"
    /\ child' = [st |-> "exited", code |-> code]
    /\ UNCHANGED <<definitions, discovery, tagActors, pc, call, queue, runchild,
                   outcome, hist>>

\* inspect_actor, line 29: result_queue.put(result). `fits` says whether the
\* pickled result fits the pipe under the queue: a child does not terminate
\* before its feeder thread has written everything it put.
ChildPut(result, fits) ==
    /\ UNCHANGED <<ctxVars, fieldVars, procVars>>
    /\ child.st = "loading"
    /\ Len(queue) < QueueSize
    /\ queue' = QueuePut(queue, result)
    /\ child' = [st |-> "put", code |-> NoCode, fits |-> fits]
    /\ hist' = [hist EXCEPT !.sends = @ + 1]
    /\ UNCHANGED <<definitions, discovery, tagActors, pc, call, runchild, outcome>>

\* The child ends after its put: code 0 when inspect_actor returns, another
\* code when it is killed or fails while shutting down.
ChildExit(code) ==
    /\ UNCHANGED <<ctxVars, fieldVars, procVars>>
    /\ child.st = "put"
    /\ child.fits \/ queue = <<>> \/ code # 0
    /\ child' = [st |-> "exited", code |-> code]
    /\ UNCHANGED <<definitions, discovery, tagActors, pc, call, queue, runchild,
                   outcome, hist>>

\* discover(), lines 157-160: p.join() returned; a non-zero exit code raises.
DiscoverJoin ==
    /\ UNCHANGED <<ctxVars, fieldVars, procVars>>
    /\ pc = "join"
    /\ Joined(child)
    /\ IF ExitFailed(child.code)
         THEN Return(Observed(Outcome("ActorInspectionFailedError", call.op, call.d,
                                      Directory(call.d)),
                              call, queue, NotRead, 0))
         ELSE /\ pc' = "get"
              /\ UNCHANGED <<outcome, call, child, queue, runchild, hist>>
    /\ UNCHANGED <<definitions, discovery, tagActors>>

\* discover(), lines 161-173: q.get() and what follows it.
DiscoverGet ==
    /\ UNCHANGED <<ctxVars, fieldVars, procVars>>
    /\ pc = "get"
    /\ queue # <<>>
    /\ LET result == Head(queue)
           kind == ResultKind(result)
           seen(o) == Observed(o, call, queue, result, 1)
       IN IF kind = "noresult"
            THEN /\ Return(seen(Outcome("ActorInspectionFailedError", call.op, call.d,
                                        Directory(call.d))))
                 /\ UNCHANGED <<discovery, tagActors>>
          ELSE IF kind = "multiple"
            THEN /\ Return(seen(Outcome("MultipleActorsError", call.op, call.d,
                                        Directory(call.d))))
                 /\ UNCHANGED <<discovery, tagActors>>
          ELSE /\ discovery' = [discovery EXCEPT ![call.d] = result[1]]
               /\ tagActors' = RegisterTags(tagActors, call.d, result[1].tags)
               /\ Return(seen(Finish(call, result[1])))
    /\ UNCHANGED definitions

\* ActorCallContext.run, lines 68-75: start the execution subprocess, block in join.
Run(d) ==
    /\ UNCHANGED <<ctxVars, fieldVars, procVars>>
    /\ pc = "idle"
    /\ hist.runs < MaxRuns
    /\ runchild' = [st |-> "running", code |-> NoCode]
    /\ pc' = "run_join"
    /\ call' = [op |-> "run", d |-> d, code |-> NoCode]
    /\ outcome' = NoOutcome
    /\ hist' = [hist EXCEPT !.runs = @ + 1]
    /\ UNCHANGED <<definitions, discovery, tagActors, child, queue>>

\* The execution subprocess (_do_run) ends with some exit code.
RunChildExit(code) ==
    /\ UNCHANGED <<ctxVars, fieldVars, procVars>>
    /\ runchild.st = "running"
    /\ runchild' = [st |-> "exited", code |-> code]
    /\ UNCHANGED <<definitions, discovery, tagActors, pc, call, child, queue,
                   outcome, hist>>

\* ActorCallContext.run, lines 75-79: p.join() returned. Exit code 0 returns; any
\* other code formats the message, which reads self.definition.name and so
\* enters discover().
RunJoin ==
    /\ UNCHANGED <<ctxVars, fieldVars, procVars>>
    /\ pc = "run_join"
    /\ Joined(runchild)
    /\ IF ExitFailed(runchild.code)
         THEN EnterDiscover([call EXCEPT !.code = runchild.code])
         ELSE Return([Outcome("return", "run", call.d, <<>>)
                        EXCEPT !.rcode = runchild.code])
    /\ UNCHANGED <<definitions, discovery, tagActors>>

\* =================================================================== SpecCtx
\* One process in which a definition's injected_context regions are entered and
\* left, one at a time.
Absent == <<"absent">>
EnvNames == {"PATH", "LEAPP_FILES", "LEAPP_TOOLS"}
CtxPaths == {"a", "b"}
ModNames == {"m", "k"}
NoRegion == [active |-> FALSE]

\* os.path.join(self._repo_dir, self._directory, path)
ActorDir == <<"repo", "actor">>
JoinPath(path) == <<"repo", "actor", path>>

\* A value of PATH is the list of its ':'-separated entries: '' is <<"">>.
\* os.environ.get('PATH', '')
EnvGetPath(env) == IF env["PATH"] = Absent THEN <<"">> ELSE env["PATH"]

\* ':'.join(path_backup.split(':') + list(join(...) for path in self.tools))
RECURSIVE JoinAll(_)
JoinAll(paths) ==
    IF paths = <<>> THEN <<>> ELSE <<JoinPath(Head(paths))>> \o JoinAll(Tail(paths))
ExtendPathFront(path_backup, tools) == JoinAll(tools) \o path_backup
ExtendPath(path_backup, tools) == path_backup \o JoinAll(tools)

\* `if self.files: os.environ['LEAPP_FILES'] = join(..., self.files[0])`
SetMarker(env, name, paths) ==
    IF paths # <<>> THEN [env EXCEPT ![name] = JoinPath(paths[1])] ELSE env

\* Lines 273-276 and 278-281: restore the marker, or pop it when it was absent.
RestoreMarker(env, name, backup) ==
    IF backup # Absent THEN [env EXCEPT ![name] = backup]
    ELSE [env EXCEPT ![name] = Absent]

\* library_loader: the (name, module) pairs of the declared library paths, in
\* order. Path "a" is a package providing modules m and k, path "b" provides a
\* module m as well.
ProvidedBy(path) == IF path = "a" THEN <<"m", "k">> ELSE <<"m">>
RECURSIVE ModulesOf(_, _)
ModulesOf(path, names) ==
    IF names = <<>> THEN <<>>
    ELSE <<[name |-> Head(names), mod |-> <<path, Head(names)>>]>>
             \o ModulesOf(path, Tail(names))
RECURSIVE LibraryLoader(_)
LibraryLoader(libs) ==
    IF libs = <<>> THEN <<>>
    ELSE ModulesOf(Head(libs), ProvidedBy(Head(libs))) \o LibraryLoader(Tail(libs))
InjectedSymbols(to_add) == {to_add[i].name : i \in 1..Len(to_add)}

\* Lines 258-261: inject into sys.modules, keeping a backup of what was there.
\* The result is <<sys.modules, backup>>.
RECURSIVE InjectModules(_, _, _)
InjectModules(sm, backup, to_add) ==
    IF to_add = <<>> THEN <<sm, backup>>
    ELSE LET e == Head(to_add)
             b == IF sm[e.name] # Absent THEN [backup EXCEPT ![e.name] = sm[e.name]]
                  ELSE backup
         IN InjectModules([sm EXCEPT ![e.name] = e.mod], b, Tail(to_add))

\* Lines 290-294: restore from the backup or pop; sys.modules.pop(name) of a
\* name that is not there raises KeyError and ends the loop. The result is
\* [sm, err].
RECURSIVE RestoreModules(_, _, _)
RestoreModules(sm, backup, to_add) ==
    IF to_add = <<>> THEN [sm |-> sm, err |-> FALSE]
    ELSE LET e == Head(to_add)
         IN IF backup[e.name] # Absent
              THEN RestoreModules([sm EXCEPT ![e.name] = backup[e.name]], backup,
                                  Tail(to_add))
            ELSE IF sm[e.name] = Absent THEN [sm |-> sm, err |-> TRUE]
            ELSE RestoreModules([sm EXCEPT ![e.name] = Absent], backup, Tail(to_add))

\* Lines 284-287: the symbols added since `before`. Where dict.keys() is a list
\* (Python 2) `before` is the snapshot taken at entry; where it is a live view
\* (Python 3) `before` shows the current names.
AddedSymbols(current, before) ==
    IF build.keysIsView THEN current \ current ELSE current \ before

Snapshot ==
    [environ |-> environ, cwd |-> cwd, actorlib |-> actorlib,
     sysmodules |-> sysmodules]
NoCtxResult == [kind |-> "none", body |-> "none"]

InitCtxIdle ==
    /\ resources = [k \in ActorWhitelist |-> <<>>]
    /\ environ = [n \in EnvNames |-> Absent]
    /\ cwd = "home"
    /\ actorlib = {}
    /\ sysmodules = [n \in ModNames |-> Absent]
    /\ region = NoRegion
    /\ ctxres = NoCtxResult
    /\ pre = [none |-> TRUE]
    /\ build = [keysIsView |-> FALSE, regions |-> 0, adds |-> 0]

InitCtx ==
    /\ resources = [k \in ActorWhitelist |-> <<>>]
    /\ environ \in [EnvNames -> {Absent, <<"/bin">>}]
    /\ cwd = "home"
    /\ actorlib = {"base"}
    /\ sysmodules \in {[n \in ModNames |-> Absent],
                       [n \in ModNames |-> IF n = "m" THEN <<"old", "m">> ELSE Absent]}
    /\ region = NoRegion
    /\ ctxres = NoCtxResult
    /\ pre = [none |-> TRUE]
    /\ \E v \in BOOLEAN : build = [keysIsView |-> v, regions |-> 0, adds |-> 0]

\* How add(kind, path) ended: it returned or raised.
AddResult(how, kind, path) == [kind |-> how, body |-> "none", arg |-> <<kind, path>>]

\* ActorDefinition.add on the process's definition.
CtxAdd(kind, path) ==
    /\ ~region.active
    /\ build.adds < MaxCtxAdds
    /\ IF kind \notin ActorWhitelist
         THEN /\ UNCHANGED resources
              /\ ctxres' = AddResult("UnsupportedDefinitionKindError", kind, path)
         ELSE /\ resources' = [resources EXCEPT ![kind] = AddPath(@, path)]
              /\ ctxres' = AddResult("added", kind, path)
    /\ build' = [build EXCEPT !.adds = @ + 1]
    /\ UNCHANGED <<environ, cwd, actorlib, sysmodules, region, pre>>
    /\ UNCHANGED <<actorVars, fieldVars, procVars>>

\* injected_context up to `yield`, lines 236-264. `fail` is where the entry
\* raises: nowhere, in library_loader, or in os.chdir.
CtxEnter(fail) ==
    /\ ~region.active
    /\ build.regions < MaxRegions
    /\ LET path_backup == EnvGetPath(environ)
           env1 == [environ EXCEPT !["PATH"] = ExtendPath(path_backup, resources["tools"])]
           files_backup == environ["LEAPP_FILES"]
           env2 == SetMarker(env1, "LEAPP_FILES", resources["files"])
           tools_backup == environ["LEAPP_TOOLS"]
           env3 == SetMarker(env2, "LEAPP_TOOLS", resources["tools"])
           before == actorlib
           to_add == LibraryLoader(resources["libraries"])
           inj == InjectModules(sysmodules, [n \in ModNames |-> Absent], to_add)
       IN /\ environ' = env3
          /\ pre' = Snapshot
          /\ build' = [build EXCEPT !.regions = @ + 1]
          /\ IF fail = "loader"
               THEN /\ ctxres' = [kind |-> "entry_failed", body |-> "none"]
                    /\ UNCHANGED <<cwd, actorlib, sysmodules, region>>
             ELSE /\ actorlib' = actorlib \cup InjectedSymbols(to_add)
                  /\ sysmodules' = inj[1]
                  /\ IF fail = "chdir"
                       THEN /\ ctxres' = [kind |-> "entry_failed", body |-> "none"]
                            /\ UNCHANGED <<cwd, region>>
                       ELSE /\ cwd' = ActorDir
                            /\ ctxres' = NoCtxResult
                            /\ region' =
                                 [active |-> TRUE, path_backup |-> path_backup,
                                  files_backup |-> files_backup,
                                  tools_backup |-> tools_backup, before |-> before,
                                  to_add |-> to_add, backup |-> inj[2],
                                  previous_path |-> cwd, touched |-> FALSE]
    /\ UNCHANGED resources
    /\ UNCHANGED <<actorVars, fieldVars, procVars>>

\* The body of the region (actor code) changes the environment or the working
\* directory of its process.
CtxBodyTouch(name, val) ==
    /\ region.active
    /\ ~region.touched
    /\ IF name = "cwd"
         THEN cwd' = "elsewhere" /\ UNCHANGED environ
         ELSE environ' = [environ EXCEPT ![name] = val] /\ UNCHANGED cwd
    /\ region' = [region EXCEPT !.touched = TRUE]
    /\ UNCHANGED <<resources, actorlib, sysmodules, ctxres, pre, build>>
    /\ UNCHANGED <<actorVars, fieldVars, procVars>>

\* The body returns or raises: the `finally` block, lines 267-294.
CtxExit(body) ==
    /\ region.active
    /\ LET env1 == [environ EXCEPT !["PATH"] = region.path_backup]
           env2 == RestoreMarker(env1, "LEAPP_FILES", region.files_backup)
           env3 == RestoreMarker(env2, "LEAPP_TOOLS", region.tools_backup)
           added == AddedSymbols(actorlib, region.before)
           rest == RestoreModules(sysmodules, region.backup, region.to_add)
       IN /\ cwd' = region.previous_path
          /\ environ' = env3
          /\ actorlib' = actorlib \ added
          /\ sysmodules' = rest.sm
          /\ ctxres' = [kind |-> IF rest.err THEN "KeyError"
                                 ELSE IF body = "raised" THEN "body_exception"
                                 ELSE "returned",
                        body |-> body]
    /\ region' = NoRegion
    /\ UNCHANGED <<resources, pre, build>>
    /\ UNCHANGED <<actorVars, fieldVars, procVars>>

NextCtx ==
    \/ \E k \in AllKinds, p \in CtxPaths : CtxAdd(k, p)
    \/ \E fail \in {"none", "loader", "chdir"} : CtxEnter(fail)
    \/ \E n \in EnvNames \cup {"cwd"}, v \in {Absent, <<"body">>} : CtxBodyTouch(n, v)
    \/ \E body \in {"returned", "raised"} : CtxExit(body)




\* ================================================================= SpecField
\* Values. A value carries its Python type name in `t`; Missing is the module's
\* `missing` function object, None is NoneType.
None == [t |-> "NoneType"]
Missing == [t |-> "function"]
PyBool(b) == [t |-> "bool", b |-> b]
\* Numbers are kept in halves, so that 1 and 1.0 are both 2 and 1.5 is 3.
PyInt(n) == [t |-> "int", n |-> 2 * n]
PyFloat(h) == [t |-> "float", n |-> h]
\* A string is the sequence of its tokens: a date-time to the second ("D0"), a
\* fraction of a second (".5"), a UTC offset ("+00:00", "+01:00"), a time zone
\* name ("UTC"), the letter "Z", other text ("x"); <<>> is the empty string.
PyStr(toks) == [t |-> "str", s |-> toks]
PyBytes(toks) == [t |-> "bytes", s |-> toks]
\* datetime.datetime: second, microsecond and tzinfo ("naive", "utc0", "plus1").
DT(sec, micro, tz) == [t |-> "datetime", sec |-> sec, micro |-> micro, tz |-> tz]
PyList(seq) == [t |-> "list", items |-> seq]
PyTuple(seq) == [t |-> "tuple", items |-> seq]
\* A key of a mapping, or an attribute of an instance, that is not there.
NoValue == [t |-> "absent"]
\* A mapping with at most the key "x".
Dict(x) == [t |-> "dict", x |-> x]
\* An instance of the schema container M (one field x), or of another class.
Instance(cls, x) == [t |-> "model", cls |-> cls, x |-> x]

ModelViolationError == "ModelViolationError"
NoErr == [exc |-> "none"]
Violation(kind, name) == [exc |-> ModelViolationError, kind |-> kind, name |-> name]
CountViolation(name, minimum, maximum, count) ==
    [exc |-> ModelViolationError, kind |-> "count", name |-> name,
     minimum |-> minimum, maximum |-> maximum, count |-> count]
\* An exception of another class escaping from the conversion.
Raised(exc, name) == [exc |-> exc, kind |-> "python", name |-> name]
Ok(v) == [ok |-> TRUE, val |-> v]
Fail(e) == [ok |-> FALSE, err |-> e]

\* bool(value)
Truthy(value) ==
    CASE value.t = "NoneType" -> FALSE
      [] value.t = "bool" -> value.b
      [] value.t \in {"int", "float"} -> value.n # 0
      [] value.t \in {"str", "bytes"} -> value.s # <<>>
      [] value.t \in {"list", "tuple"} -> value.items # <<>>
      [] value.t = "dict" -> value.x # NoValue
      [] OTHER -> TRUE

\* isinstance(value, types): bool is a subclass of int.
IsInstance(value, types) ==
    value.t \in types \/ (value.t = "bool" /\ "int" \in types)

Numeric(value) == value.t \in {"bool", "int", "float"}
Num(value) == IF value.t = "bool" THEN (IF value.b THEN 2 ELSE 0) ELSE value.n

\* a == b
RECURSIVE PyEq(_, _)
PyEq(a, b) ==
    IF Numeric(a) /\ Numeric(b) THEN Num(a) = Num(b)
    ELSE IF a.t # b.t THEN FALSE
    ELSE IF a.t \in {"list", "tuple"}
      THEN /\ Len(a.items) = Len(b.items)
           /\ \A i \in 1..Len(a.items) : PyEq(a.items[i], b.items[i])
    ELSE IF a.t = "datetime"
      THEN a.sec = b.sec /\ a.micro = b.micro /\ a.tz = b.tz
    ELSE a = b

\* Fields. kind is the class; elem is List's elem_field; minimum / maximum are
\* List's bounds as stored by __init__ (NoBound is None).
NoBound == -1
NoField == [kind |-> "none"]
Field(kind, required, allow_null, default) ==
    [kind |-> kind, required |-> required, allow_null |-> allow_null,
     default |-> default, choices |-> <<>>, elem |-> NoField,
     minimum |-> 0, maximum |-> NoBound]
EnumField(kind, choices, required, allow_null, default) ==
    [Field(kind, required, allow_null, default) EXCEPT !.choices = choices]
\* List.__init__, lines 366-367: `minimum or 0`, maximum as given.
ListField(elem, minimum, maximum, required, allow_null, default) ==
    [Field("List", required, allow_null, default) EXCEPT
        !.elem = elem,
        !.minimum = IF minimum = NoBound THEN 0 ELSE minimum,
        !.maximum = maximum]
ModelField(required, allow_null, default) ==
    Field("Model", required, allow_null, default)

BuiltinKinds == {"Boolean", "Float", "Integer", "Number", "String", "DateTime"}
EnumKinds == {"StringEnum", "IntegerEnum", "FloatEnum", "NumberEnum"}
BaseKind(kind) ==
    CASE kind = "StringEnum" -> "String"
      [] kind = "IntegerEnum" -> "Integer"
      [] kind = "FloatEnum" -> "Float"
      [] kind = "NumberEnum" -> "Number"
      [] OTHER -> kind

\* _model_type of the builtin fields
ModelTypes(kind) ==
    CASE kind = "Boolean" -> {"bool"}
      [] kind = "Float" -> {"float"}
      [] kind = "Integer" -> {"int"}
      [] kind = "Number" -> {"int", "float"}
      [] kind = "String" -> {"str", "bytes"}
      [] kind = "DateTime" -> {"datetime"}
\* _builtin_type: the model type, except for DateTime
BuiltinTypes(kind) == IF kind = "DateTime" THEN {"str"} ELSE ModelTypes(kind)

\* Field._validate_model_value, lines 63-66
FieldValidateModelNoMissing(f, value, name) ==
    IF value = None /\ ~f.allow_null THEN Violation("null", name) ELSE NoErr
FieldValidateModel(f, value, name) ==
    IF value = None /\ ~f.allow_null THEN Violation("null", name)
    ELSE IF value = Missing /\ f.required THEN Violation("missing", name)
    ELSE NoErr

\* Field._validate_builtin_value, lines 76-77
FieldValidateBuiltinLax(f, value, name) == NoErr
FieldValidateBuiltin(f, value, name) ==
    IF value = None /\ ~f.allow_null THEN Violation("null", name) ELSE NoErr

\* BuiltinField._validate, lines 180-187
TypeCheck(f, value, name, types) ==
    IF ~f.required /\ value = Missing THEN NoErr
    ELSE IF value # None /\ ~IsInstance(value, types)
      THEN Violation("type", name)
    ELSE NoErr

\* EnumMixin._validate_choices, lines 304-307: the message lists the choices.
ChoiceViolation(name, choices) ==
    [exc |-> ModelViolationError, kind |-> "choice", name |-> name,
     values |-> choices]
ChoiceCheckNever(f, value, name) == NoErr
ChoiceCheck(f, value, name) ==
    IF /\ value # None /\ value # Missing
       /\ ~\E i \in 1..Len(f.choices) : PyEq(value, f.choices[i])
      THEN ChoiceViolation(name, f.choices)
    ELSE NoErr

\* List._validate_count, lines 371-374: `self._maximum or count`
CountCheck(f, value, name) ==
    LET count == Len(value.items)
        maximum == IF f.maximum = NoBound \/ f.maximum = 0 THEN count ELSE f.maximum
    IN IF ~(f.minimum <= count /\ count <= maximum)
         THEN CountViolation(name, f.minimum, maximum, count)
       ELSE NoErr

First(e1, e2) == IF e1 # NoErr THEN e1 ELSE e2

\* The schema container M: its one field, x.
MField == Field("Integer", FALSE, FALSE, Missing)

\* _validate_model_value of each class, by kind.
RECURSIVE ValidateModel(_, _, _)
RECURSIVE ValidateModelEach(_, _, _, _)
ValidateModelEach(elem, seq, name, idx) ==
    IF idx > Len(seq) THEN NoErr
    ELSE First(ValidateModel(elem, seq[idx], Append(name, idx - 1)),
               ValidateModelEach(elem, seq, name, idx + 1))
ValidateModel(f, value, name) ==
    IF f.kind \in BuiltinKinds
      THEN First(FieldValidateModel(f, value, name),
                 TypeCheck(f, value, name, ModelTypes(f.kind)))
    ELSE IF f.kind \in EnumKinds
      THEN First(FieldValidateModel(f, value, name),
           First(TypeCheck(f, value, name, ModelTypes(BaseKind(f.kind))),
                 ChoiceCheck(f, value, name)))
    ELSE IF f.kind = "List"
      THEN First(FieldValidateModel(f, value, name),
                 IF IsInstance(value, {"list", "tuple"})
                   THEN First(CountCheck(f, value, name),
                              ValidateModelEach(f.elem, value.items, name, 1))
                 ELSE IF Truthy(value) /\ value # Missing
                   THEN Violation("list", name)
                 ELSE NoErr)
    ELSE First(FieldValidateModel(f, value, name),
               IF /\ Truthy(value) /\ value # Missing
                  /\ ~(value.t = "model" /\ value.cls = "M")
                 THEN Violation("model", name)
               ELSE NoErr)

\* _validate_builtin_value of each class, by kind. Model's calls
\* Field._validate_model_value (line 439).
RECURSIVE ValidateBuiltin(_, _, _)
RECURSIVE ValidateBuiltinEach(_, _, _, _)
ValidateBuiltinEach(elem, seq, name, idx) ==
    IF idx > Len(seq) THEN NoErr
    ELSE First(ValidateBuiltin(elem, seq[idx], Append(name, idx - 1)),
               ValidateBuiltinEach(elem, seq, name, idx + 1))
ValidateBuiltin(f, value, name) ==
    IF f.kind \in BuiltinKinds
      THEN First(FieldValidateBuiltin(f, value, name),
                 TypeCheck(f, value, name, BuiltinTypes(f.kind)))
    ELSE IF f.kind \in EnumKinds
      THEN First(FieldValidateBuiltin(f, value, name),
           First(TypeCheck(f, value, name, BuiltinTypes(BaseKind(f.kind))),
                 ChoiceCheck(f, value, name)))
    ELSE IF f.kind = "List"
      THEN First(FieldValidateBuiltin(f, value, name),
                 IF IsInstance(value, {"list", "tuple"})
                   THEN First(CountCheck(f, value, name),
                              ValidateBuiltinEach(f.elem, value.items, name, 1))
                 ELSE IF value # None THEN Violation("list", name)
                 ELSE NoErr)
    ELSE First(FieldValidateModel(f, value, name),
               IF Truthy(value) /\ value.t # "dict"
                 THEN Violation("mapping", name)
               ELSE NoErr)


\* str.rstrip('Z')
RECURSIVE RStripZ(_)
RStripZ(toks) ==
    IF toks # <<>> /\ toks[Len(toks)] = "Z"
      THEN RStripZ(SubSeq(toks, 1, Len(toks) - 1))
    ELSE toks

\* datetime.isoformat()
IsoFormat(dt) ==
    <<IF dt.sec = 0 THEN "D0" ELSE "D1">>
    \o (IF dt.micro # 0 THEN <<".5">> ELSE <<>>)
    \o (CASE dt.tz = "naive" -> <<>>
          [] dt.tz = "utc0" -> <<"+00:00">>
          [] dt.tz = "plus1" -> <<"+01:00">>)

\* `not value.utcoffset()`: utcoffset() is None or a zero timedelta
NoUtcOffsetNaiveOnly(dt) == dt.tz = "naive"
NoUtcOffset(dt) == dt.tz \in {"naive", "utc0"}

\* datetime.strptime(value, '%Y-%m-%dT%H:%M:%S' + fractions + zone): the parsed
\* value is naive whether or not a zone name was read.
Strptime(toks, fractions, zone) ==
    LET n == 1 + (IF fractions THEN 1 ELSE 0) + (IF zone THEN 1 ELSE 0)
    IN IF /\ Len(toks) = n
          /\ toks[1] \in {"D0", "D1"}
          /\ fractions => toks[2] = ".5"
          /\ zone => toks[n] \in {"UTC", "GMT"}
         THEN Ok(DT(IF toks[1] = "D0" THEN 0 ELSE 1,
                    IF fractions THEN 5 ELSE 0, "naive"))
       ELSE Fail(NoErr)

\* DateTime._convert_to_model after validation, lines 251-268
ParseDateTime(value, name) ==
    LET stripped == RStripZ(value.s)
        fractions == \E i \in 1..Len(stripped) : stripped[i] \in {".5", "."}
        zoned == Strptime(stripped, fractions, TRUE)
        plain == Strptime(stripped, fractions, FALSE)
    IN IF zoned.ok THEN zoned
       ELSE IF plain.ok THEN plain
       ELSE Fail(Violation("datetime", name))

\* leapp.models.Model.__init__(init_method='to_model', **mapping) for M: each
\* field's to_model reads the mapping and sets the attribute.
RECURSIVE ConvertToModel(_, _, _)
RECURSIVE ConvertToModelEach(_, _, _, _)
RECURSIVE ToModelValue(_, _, _)
ConstructM(mapping) ==
    LET x == ToModelValue(MField, mapping.x, <<"x">>)
    IN IF x.ok THEN Ok(Instance("M", x.val)) ELSE x

\* Field.to_model, lines 129-133: the value the attribute is set to
ToModelValueAlways(f, source, name) ==
    ConvertToModel(f, IF source = NoValue THEN f.default ELSE source, name)
ToModelValue(f, source, name) ==
    LET source_value == IF source = NoValue THEN f.default ELSE source
    IN IF source_value = Missing /\ ~f.required THEN Ok(source_value)
       ELSE ConvertToModel(f, source_value, name)

ConvertToModelEach(elem, seq, name, idx) ==
    IF idx > Len(seq) THEN Ok(<<>>)
    ELSE LET head == ConvertToModel(elem, seq[idx], Append(name, idx - 1))
             rest == ConvertToModelEach(elem, seq, name, idx + 1)
         IN IF ~head.ok THEN head
            ELSE IF ~rest.ok THEN rest
            ELSE Ok(<<head.val>> \o rest.val)

\* _convert_to_model of each class, by kind
ConvertToModel(f, value, name) ==
    LET invalid == ValidateBuiltin(f, value, name)
    IN IF invalid # NoErr THEN Fail(invalid)
       ELSE IF f.kind = "DateTime"
         THEN IF value = None THEN Ok(value)
              ELSE IF value = Missing THEN Fail(Raised("AttributeError", name))
              ELSE ParseDateTime(value, name)
       ELSE IF f.kind = "List"
         THEN IF value = None THEN Ok(value)
              ELSE LET each == ConvertToModelEach(f.elem, value.items, name, 1)
                   IN IF each.ok THEN Ok(PyList(each.val)) ELSE each
       ELSE IF f.kind = "Model"
         THEN IF value = None THEN Ok(value)
              ELSE IF value.t = "dict" THEN ConstructM(value)
              ELSE Fail(Raised("TypeError", name))
       ELSE Ok(value)

\* leapp.models.Model.dump() for M: each field's to_builtin fills the mapping.
RECURSIVE ConvertFromModel(_, _, _)
RECURSIVE ConvertFromModelEach(_, _, _, _)
RECURSIVE ToBuiltinValue(_, _, _)
DumpM(instance) ==
    LET x == ToBuiltinValue(MField, instance.x, <<"x">>)
    IN IF x.ok THEN Ok(Dict(x.val)) ELSE x

\* Field.to_builtin, lines 147-149: the entry the mapping ends with
ToBuiltinValue(f, attr, name) ==
    LET target_value == ConvertFromModel(f, IF attr = NoValue THEN None ELSE attr, name)
    IN IF ~target_value.ok THEN target_value
       ELSE IF target_value.val = Missing THEN Ok(NoValue)
       ELSE target_value

ConvertFromModelEach(elem, seq, name, idx) ==
    IF idx > Len(seq) THEN Ok(<<>>)
    ELSE LET head == ConvertFromModel(elem, seq[idx], Append(name, idx - 1))
             rest == ConvertFromModelEach(elem, seq, name, idx + 1)
         IN IF ~head.ok THEN head
            ELSE IF ~rest.ok THEN rest
            ELSE Ok(<<head.val>> \o rest.val)

\* _convert_from_model of each class, by kind
ConvertFromModel(f, value, name) ==
    LET invalid == ValidateModel(f, value, name)
    IN IF invalid # NoErr THEN Fail(invalid)
       ELSE IF f.kind = "DateTime"
         THEN IF value \in {None, Missing} THEN Ok(value)
              ELSE IF NoUtcOffset(value)
                THEN Ok(PyStr(IsoFormat(value) \o <<"Z">>))
              ELSE Ok(None)
       ELSE IF f.kind = "List"
         THEN IF value \in {None, Missing} THEN Ok(value)
              ELSE IF value.t \in {"list", "tuple"}
                THEN LET each == ConvertFromModelEach(f.elem, value.items, name, 1)
                     IN IF each.ok THEN Ok(PyList(each.val)) ELSE each
              ELSE IF value.t \in {"str", "bytes", "dict"} THEN Ok(PyList(<<>>))
              ELSE Fail(Raised("TypeError", name))
       ELSE IF f.kind = "Model"
         THEN IF value \in {None, Missing} THEN Ok(value)
              ELSE IF value.t = "model" THEN DumpM(value)
              ELSE Fail(Raised("AttributeError", name))
       ELSE Ok(value)


\* ------------------------------------------------------ SpecField: universe
\* Longest list or tuple given to a List field.
MaxListLen == 2

Tuples(S) == UNION {[1..k -> S] : k \in 0..MaxListLen}

Strings ==
    {PyStr(toks) : toks \in {<<>>, <<"x">>, <<"D0">>, <<"D0", "Z">>,
                             <<"D1", ".5", "Z">>, <<"D0", ".">>,
                             <<"D0", "UTC">>, <<"D0", "+00:00", "Z">>,
                             <<"D0", "+01:00">>}}
DateTimes ==
    {DT(0, 0, "naive"), DT(1, 5, "naive"), DT(0, 0, "utc0"), DT(0, 5, "plus1")}
Scalars ==
    {None, Missing, PyBool(FALSE), PyBool(TRUE), PyInt(0), PyInt(1), PyInt(2),
     PyFloat(0), PyFloat(2), PyFloat(3), PyBytes(<<"x">>)}
    \cup Strings \cup DateTimes
ElemValues ==
    {None, PyInt(1), PyStr(<<"D0", "Z">>), PyStr(<<"x">>), DT(0, 0, "naive"),
     DT(0, 5, "plus1")}
Mappings == {Dict(NoValue), Dict(PyInt(1)), Dict(None), Dict(PyStr(<<"x">>))}
Instances ==
    {Instance("M", PyInt(1)), Instance("M", Missing), Instance("M", None),
     Instance("Other", NoValue)}
Values ==
    Scalars \cup Mappings \cup Instances
    \cup {PyList(seq) : seq \in Tuples(ElemValues)}
    \cup {PyTuple(seq) : seq \in Tuples(ElemValues)}
    \cup {PyList(<<PyList(<<PyInt(1)>>)>>), PyList(<<PyTuple(<<>>)>>),
          PyList(<<PyList(<<None>>)>>)}

Sample(kind) ==
    CASE kind = "Boolean" -> PyBool(TRUE)
      [] kind = "Float" -> PyFloat(3)
      [] kind \in {"Integer", "Number"} -> PyInt(1)
      [] kind = "String" -> PyStr(<<"x">>)
      [] kind = "DateTime" -> DT(0, 0, "naive")

Choices(kind) ==
    CASE kind = "StringEnum" -> <<PyStr(<<"x">>)>>
      [] kind = "IntegerEnum" -> <<PyInt(1)>>
      [] kind = "FloatEnum" -> <<PyFloat(3)>>
      [] kind = "NumberEnum" -> <<PyInt(1), PyFloat(3)>>

ElemFields ==
    {Field("Integer", TRUE, FALSE, Missing), Field("Integer", TRUE, TRUE, Missing),
     Field("DateTime", TRUE, FALSE, Missing),
     ListField(Field("Integer", TRUE, FALSE, Missing), NoBound, NoBound,
               TRUE, FALSE, Missing)}

FieldSet ==
    {Field(kind, required, allow_null, default) :
        kind \in BuiltinKinds, required \in BOOLEAN, allow_null \in BOOLEAN,
        default \in {Missing, None}}
    \cup {Field(kind, required, allow_null, Sample(kind)) :
        kind \in BuiltinKinds, required \in BOOLEAN, allow_null \in BOOLEAN}
    \cup {EnumField(kind, Choices(kind), required, allow_null, Missing) :
        kind \in EnumKinds, required \in BOOLEAN, allow_null \in BOOLEAN}
    \cup {ListField(elem, minimum, maximum, required, allow_null, Missing) :
        elem \in ElemFields, minimum \in {NoBound, 1}, maximum \in {NoBound, 0, 1},
        required \in BOOLEAN, allow_null \in BOOLEAN}
    \cup {ModelField(required, allow_null, default) :
        required \in BOOLEAN, allow_null \in BOOLEAN, default \in {Missing, None}}

FieldName == <<"f">>

InitFieldIdle ==
    /\ fld = NoField
    /\ fsrc = NoValue
    /\ fobj = NoValue
    /\ fdict = NoValue
    /\ ferr = NoErr
    /\ fop = "none"
    /\ forig = NoValue

InitField ==
    /\ \/ fld \in FieldSet /\ fsrc \in Values \cup {NoValue}
       \/ fld = NoField /\ fsrc = NoValue
    /\ fobj = NoValue
    /\ fdict = NoValue
    /\ ferr = NoErr
    /\ fop = "none"
    /\ forig = NoValue

\* ------------------------------------------------------- SpecField: actions
\* setattr(target, name, value) and target[name] = value are the last
\* statement of each operation (lines 115, 133, 149): they run only when
\* nothing before them has raised.
AssignNoneOnError(previous, result) == IF result.ok THEN result.val ELSE None
Assign(previous, result) == IF result.ok THEN result.val ELSE previous

\* Field.from_initialization(source, name, target), lines 101-115
FromInitialization ==
    /\ fop = "none"
    /\ fld # NoField
    /\ LET source_value == IF fsrc = NoValue THEN fld.default ELSE fsrc
           invalid == ValidateModel(fld, source_value, FieldName)
       IN /\ ferr' = invalid
          /\ fobj' = Assign(fobj, IF invalid = NoErr THEN Ok(source_value)
                                                     ELSE Fail(invalid))
    /\ fop' = "from_initialization"
    /\ UNCHANGED <<fld, fsrc, fdict, forig>>
    /\ UNCHANGED <<actorVars, ctxVars, procVars>>

\* Field.to_model(source, name, target), lines 117-133
ToModel ==
    /\ fop = "none"
    /\ fld # NoField
    /\ LET target_value == ToModelValue(fld, fsrc, FieldName)
       IN /\ ferr' = IF target_value.ok THEN NoErr ELSE target_value.err
          /\ fobj' = Assign(fobj, target_value)
    /\ fop' = "to_model"
    /\ UNCHANGED <<fld, fsrc, fdict, forig>>
    /\ UNCHANGED <<actorVars, ctxVars, procVars>>

\* Field.to_builtin(source, name, target), lines 135-149
ToBuiltin ==
    /\ fop = "none"
    /\ fld # NoField
    /\ LET target_value == ToBuiltinValue(fld, fsrc, FieldName)
       IN /\ ferr' = IF target_value.ok THEN NoErr ELSE target_value.err
          /\ fdict' = Assign(fdict, target_value)
    /\ forig' = IF fsrc = NoValue THEN None ELSE fsrc
    /\ fop' = "to_builtin"
    /\ UNCHANGED <<fld, fsrc, fobj>>
    /\ UNCHANGED <<actorVars, ctxVars, procVars>>

\* Field.to_model on the mapping to_builtin has filled
ToModelBack ==
    /\ fop = "to_builtin"
    /\ ferr = NoErr
    /\ LET target_value == ToModelValue(fld, fdict, FieldName)
       IN /\ ferr' = IF target_value.ok THEN NoErr ELSE target_value.err
          /\ fobj' = Assign(fobj, target_value)
    /\ fop' = "round_trip"
    /\ UNCHANGED <<fld, fsrc, fdict, forig>>
    /\ UNCHANGED <<actorVars, ctxVars, procVars>>

\* The __init__ of the field classes: Field (lines 37-53), EnumMixin (285-293),
\* List (342-367), Model (413-430), Nested (457-458). arg is choices,
\* elem_field or model_type.
ModelMisuseError == "ModelMisuseError"
NewFieldAlways(cls, arg) == Ok(Field("Boolean", FALSE, FALSE, Missing))
NewField(cls, arg) ==
    IF cls \in {"Field", "Nested"} THEN Fail(Raised(ModelMisuseError, <<cls>>))
    ELSE IF cls \in EnumKinds
      THEN IF arg.t \in {"list", "tuple"}
             THEN Ok(EnumField(cls, arg.items, FALSE, FALSE, Missing))
           ELSE Fail(Raised(ModelMisuseError, <<cls>>))
    ELSE IF cls = "List"
      THEN IF arg.t = "field"
             THEN Ok(ListField(arg.f, NoBound, NoBound, FALSE, FALSE, Missing))
           ELSE Fail(Raised(ModelMisuseError, <<cls>>))
    ELSE IF cls = "Model"
      THEN IF arg.t = "type" /\ arg.cls = "M"
             THEN Ok(ModelField(FALSE, FALSE, Missing))
           ELSE Fail(Raised(ModelMisuseError, <<cls>>))
    ELSE Ok(Field(cls, FALSE, FALSE, Missing))

\* A field is constructed; fsrc keeps the class and the argument of the call.
Construct(cls, arg) ==
    /\ fop = "none"
    /\ fld = NoField
    /\ LET new == NewField(cls, arg)
       IN /\ fld' = IF new.ok THEN new.val ELSE fld
          /\ ferr' = IF new.ok THEN NoErr ELSE new.err
    /\ fsrc' = [t |-> "call", cls |-> cls, arg |-> arg]
    /\ fop' = "construct"
    /\ UNCHANGED <<fobj, fdict, forig>>
    /\ UNCHANGED <<actorVars, ctxVars, procVars>>

NextField ==
    \/ \E cls \in BuiltinKinds \cup EnumKinds \cup {"Field", "List", "Model", "Nested"},
          arg \in {None, PyStr(<<"x">>), PyInt(1), Dict(NoValue),
                   PyList(<<PyInt(1)>>), PyTuple(<<>>),
                   [t |-> "field", f |-> MField], Instance("M", PyInt(1)),
                   [t |-> "type", cls |-> "M"], [t |-> "type", cls |-> "Other"],
                   [t |-> "type", cls |-> "String"]} :
          Construct(cls, arg)
    \/ FromInitialization
    \/ ToModel
    \/ ToBuiltin
    \/ ToModelBack


\* ================================================================== SpecProc
\* The parent process P0, the discovery subprocess Pd it starts in discover(),
\* the execution subprocess Pe it starts in run(), and the discovery
\* subprocess Pg that Pe starts when _do_run reads definition.name without a
\* cached record. Each process has its own copy of the definition (_module,
\* _discovery) and its own process-wide state.
Procs == {"P0", "Pd", "Pe", "Pg"}

\* A process that does not exist (yet).
NoProc ==
    [st |-> "none", task |-> "none", pos |-> "none", own |-> 0, inherited |-> 0,
     module |-> FALSE, cached |-> FALSE, ok |-> FALSE, sent |-> <<>>]

\* definition.full_path, a string: os.path.realpath(join(repo_dir, directory)).
FullPath == <<"/", "r", "/", "a", "b">>

\* `entry['path'] in definition.full_path` on two strings
PathIn(path, full_path) ==
    \E i \in 1..(Len(full_path) + 1), j \in 0..Len(full_path) :
        SubSeq(full_path, i, j) = path

\* get_actors() in a process: the class of this actor once its module is
\* loaded, and the class of another actor, declared at setup.other, when one is
\* registered.
Registered(r) ==
    (IF r.module THEN <<FullPath>> ELSE <<>>)
    \o (IF setup.otherActors THEN <<setup.other>> ELSE <<>>)

\* inspect_actor, line 28: the entries whose path is in full_path
Matching(entries) == SelectSeq(entries, LAMBDA path : PathIn(path, FullPath))

\* Process(target=...).start(): with the fork start method the child is a copy
\* of the starting process, regions entered and not left included; with spawn
\* it is a fresh interpreter that unpickles the definition.
Started(parent, task) ==
    [st |-> "running", task |-> task, pos |-> "load", own |-> 0,
     inherited |-> IF setup.fork THEN parent.own + parent.inherited ELSE 0,
     module |-> setup.fork /\ parent.module,
     cached |-> parent.cached, ok |-> FALSE, sent |-> <<>>]

\* With spawn the definition is pickled, which fails once _module holds a module.
CanStart(parent) == setup.fork \/ ~parent.module

\* injected_context entered / left by the process itself.
EnterRegion(r) == [r EXCEPT !.own = @ + 1]
LeaveRegion(r) == [r EXCEPT !.own = @ - 1]

\* Where a process continues after load() has returned.
AfterLoadNoContext(task) ==
    CASE task = "parent" -> "idle"
      [] task = "inspect" -> "put"
      [] task = "do_run" -> "actor"
AfterLoad(task) ==
    CASE task = "parent" -> "idle"
      [] task = "inspect" -> "put"
      [] task = "do_run" -> "ctx"

InitProcIdle ==
    /\ setup = [hasModule |-> TRUE, fork |-> TRUE, otherActors |-> FALSE,
                other |-> <<>>]
    /\ proc = [p \in Procs |-> NoProc]
    /\ nops = 0

InitProc ==
    /\ setup \in [hasModule : BOOLEAN, fork : BOOLEAN, otherActors : BOOLEAN,
                  other : {<<>>, <<"/", "r">>, <<"/", "r", "/", "a">>,
                           <<"/", "o">>, <<"/", "r", "/", "a", "b", "/", "c">>}]
    /\ setup.otherActors <=> setup.other # <<>>
    /\ proc = [p \in Procs |->
                 IF p = "P0" THEN [NoProc EXCEPT !.st = "running", !.task = "parent",
                                                 !.pos = "idle"]
                 ELSE NoProc]
    /\ nops = 0

Others == UNCHANGED <<actorVars, ctxVars, fieldVars>>

\* The parent calls load().
ParentLoad ==
    /\ proc["P0"].pos = "idle"
    /\ nops < MaxOps
    /\ proc' = [proc EXCEPT !["P0"].pos = "load"]
    /\ nops' = nops + 1
    /\ UNCHANGED setup /\ Others

\* load(), line 138-139: nothing to do when _module is set, else the region is
\* entered.
LoadStart(p) ==
    /\ proc[p].pos = "load"
    /\ proc' = [proc EXCEPT ![p] =
                  IF @.module THEN [@ EXCEPT !.pos = AfterLoad(proc[p].task)]
                  ELSE [EnterRegion(@) EXCEPT !.pos = "load_in"]]
    /\ UNCHANGED <<setup, nops>> /\ Others

\* load(), lines 140-144: the first non-package module of the directory, if
\* there is one, becomes _module.
LoadImport(p) ==
    /\ proc[p].pos = "load_in"
    /\ proc' = [proc EXCEPT ![p].module = setup.hasModule, ![p].pos = "load_out"]
    /\ UNCHANGED <<setup, nops>> /\ Others

\* load(): the with block ends.
LoadExit(p) ==
    /\ proc[p].pos = "load_out"
    /\ proc' = [proc EXCEPT ![p] = [LeaveRegion(@) EXCEPT !.pos = AfterLoad(proc[p].task)]]
    /\ UNCHANGED <<setup, nops>> /\ Others

\* -------------------------------------------------------- the specifications
InitSpecCtx == InitActor /\ InitCtx /\ InitFieldIdle /\ InitProcIdle

SpecCtx == InitSpecCtx /\ [][NextCtx]_vars

InitSpecField == InitActor /\ InitCtxIdle /\ InitField /\ InitProcIdle

SpecField == InitSpecField /\ [][NextField]_vars


Next ==
    \/ \E d \in Defs, k \in AddKinds, p \in Paths : Add(d, k, p)
    \/ \E d \in Defs, k \in ActorWhitelist \cup {"directory"} : ReadResource(d, k)
    \/ \E d \in Defs : Discover(d)
    \/ \E d \in Defs, key \in MetaKeys : ReadMeta(d, key)
    \/ \E code \in ExitCodes : ChildDiesEarly(code)
    \/ \E result \in Results, fits \in BOOLEAN : ChildPut(result, fits)
    \/ \E code \in ExitCodes : ChildExit(code)
    \/ DiscoverJoin
    \/ DiscoverGet
    \/ \E d \in Defs : Run(d)
    \/ \E code \in ExitCodes : RunChildExit(code)
    \/ RunJoin

Init == InitActor /\ InitCtxIdle /\ InitFieldIdle /\ InitProcIdle

Spec == Init /\ [][Next]_vars

\* Spec with the parent process scheduled: a parent that can leave p.join() or
\* q.get() eventually does.
SpecLive ==
    Init /\ [][Next]_vars /\ WF_vars(DiscoverJoin) /\ WF_vars(DiscoverGet)

\* The subprocess a process starts in discover().
Inspector(p) == IF p = "P0" THEN "Pd" ELSE "Pg"

\* discover(), lines 152-156, in process p: the inspection subprocess is started.
InspectInProcess(p, waiting) ==
    [proc EXCEPT ![p] = [EnterRegion(proc[p]) EXCEPT !.pos = "load_in"]]
StartInspector(p, waiting) ==
    [proc EXCEPT ![Inspector(p)] = Started(proc[p], "inspect"), ![p].pos = waiting]

\* The parent calls discover(): nothing is started when the record is cached.
ParentDiscover ==
    /\ proc["P0"].pos = "idle"
    /\ nops < MaxOps
    /\ nops' = nops + 1
    /\ proc' = IF ~proc["P0"].cached /\ CanStart(proc["P0"])
               THEN StartInspector("P0", "djoin")
               ELSE proc
    /\ UNCHANGED setup /\ Others

\* inspect_actor after load(), lines 27-29: the matching entries are put on
\* the queue and the subprocess ends; discover() has a record when there is
\* exactly one entry.
InspectPut(c) ==
    /\ proc[c].pos = "put"
    /\ LET result == Matching(Registered(proc[c]))
       IN proc' = [proc EXCEPT ![c].sent = result, ![c].ok = Len(result) = 1,
                               ![c].pos = "done", ![c].st = "exited"]
    /\ UNCHANGED <<setup, nops>> /\ Others

\* discover(), lines 157-173, in the parent: the subprocess is joined and a
\* record is cached when there was one.
ParentDiscoverJoin ==
    /\ proc["P0"].pos = "djoin"
    /\ proc["Pd"].st = "exited"
    /\ proc' = [proc EXCEPT !["P0"].cached = proc["Pd"].ok, !["P0"].pos = "idle"]
    /\ UNCHANGED <<setup, nops>> /\ Others

\* run(), lines 64-72: the execution subprocess is started.
ParentRun ==
    /\ proc["P0"].pos = "idle"
    /\ nops < MaxOps
    /\ nops' = nops + 1
    /\ proc' = IF CanStart(proc["P0"])
               THEN [proc EXCEPT !["Pe"] = Started(proc["P0"], "do_run"),
                                 !["P0"].pos = "rjoin"]
               ELSE proc
    /\ UNCHANGED setup /\ Others

\* run(), lines 73-79: after the join a failed run reads definition.name for
\* its message, which is a discover() of its own.
ParentRunJoin ==
    /\ proc["P0"].pos = "rjoin"
    /\ proc["Pe"].st = "exited"
    /\ proc' = IF ~proc["Pe"].ok /\ ~proc["P0"].cached /\ CanStart(proc["P0"])
               THEN StartInspector("P0", "djoin")
               ELSE [proc EXCEPT !["P0"].pos = "idle"]
    /\ UNCHANGED <<setup, nops>> /\ Others

\* _do_run, line 60: the region around the actor's entry point is entered.
ExecEnter ==
    /\ proc["Pe"].pos = "ctx"
    /\ proc' = [proc EXCEPT !["Pe"] = [EnterRegion(@) EXCEPT !.pos = "name"]]
    /\ UNCHANGED <<setup, nops>> /\ Others

\* _do_run, line 61: every registered actor class is compared with
\* definition.name, which is a discover() inside the region when no record is
\* cached; without a class of that name the [0] raises.
ExecName ==
    /\ proc["Pe"].pos = "name"
    /\ LET me == proc["Pe"]
           registered == me.module \/ setup.otherActors
       IN proc' = IF ~registered THEN [proc EXCEPT !["Pe"].pos = "ctx_out"]
                  ELSE IF me.cached
                       THEN [proc EXCEPT !["Pe"].pos =
                               IF me.module THEN "actor" ELSE "ctx_out"]
                  ELSE IF CanStart(me) THEN StartInspector("Pe", "wait")
                  ELSE [proc EXCEPT !["Pe"].pos = "ctx_out"]
    /\ UNCHANGED <<setup, nops>> /\ Others

\* discover() inside the region of _do_run: the subprocess is joined.
ExecDiscoverJoin ==
    /\ proc["Pe"].pos = "wait"
    /\ proc["Pg"].st = "exited"
    /\ proc' = [proc EXCEPT !["Pe"].cached = proc["Pg"].ok,
                            !["Pe"].pos = IF proc["Pg"].ok /\ proc["Pe"].module
                                          THEN "actor" ELSE "ctx_out"]
    /\ UNCHANGED <<setup, nops>> /\ Others

\* _do_run, line 62: the actor is instantiated and its entry point runs, and
\* returns or raises.
ExecActor(raises) ==
    /\ proc["Pe"].pos = "actor"
    /\ proc' = [proc EXCEPT !["Pe"].ok = ~raises, !["Pe"].pos = "ctx_out"]
    /\ UNCHANGED <<setup, nops>> /\ Others

\* _do_run: the with block ends, by return or by exception, and so does the
\* subprocess.
ExecExit ==
    /\ proc["Pe"].pos = "ctx_out"
    /\ proc' = [proc EXCEPT !["Pe"] = [LeaveRegion(@) EXCEPT !.pos = "done",
                                                               !.st = "exited"]]
    /\ UNCHANGED <<setup, nops>> /\ Others

NextProc ==
    \/ ParentLoad
    \/ ParentDiscover
    \/ ParentRun
    \/ \E p \in Procs : LoadStart(p)
    \/ \E p \in Procs : LoadImport(p)
    \/ \E p \in Procs : LoadExit(p)
    \/ \E c \in {"Pd", "Pg"} : InspectPut(c)
    \/ ParentDiscoverJoin
    \/ ParentRunJoin
    \/ ExecEnter
    \/ ExecName
    \/ ExecDiscoverJoin
    \/ \E raises \in BOOLEAN : ExecActor(raises)
    \/ ExecExit

InitSpecProc == InitActor /\ InitCtxIdle /\ InitFieldIdle /\ InitProc

SpecProc == InitSpecProc /\ [][NextProc]_vars

\* Regions a process has entered itself and not left.
OwnRegions(p) == proc[p].own

\* Regions active in a process: its own and those a forked process was
\* started inside of.
ActiveRegions(p) == proc[p].own + proc[p].inherited

\* C14: at most one injected_context region is active in any single process
\* at any time, whatever load(), discover() and run() calls are made.
C14_OneRegionPerProcess ==
    \A p \in Procs : ActiveRegions(p) <= 1

\* C14, as the code has it: no process enters a region while a region it has
\* entered itself is still open; load() has left its region when it returns
\* and when _do_run enters the region around the actor.
C14_OneOwnRegionPerProcess ==
    \A p \in Procs : OwnRegions(p) <= 1

\* C14: the execution subprocess has loaded the module in load()'s region and
\* runs the actor inside the second region.
C14_Witness ==
    /\ proc["Pe"].pos = "actor"
    /\ proc["Pe"].module
    /\ OwnRegions("Pe") = 1
    /\ ~proc["P0"].module

\* C14: a forked discovery subprocess started inside the region of _do_run
\* enters load()'s region on top of it.
C14_Nested ==
    /\ proc["Pg"].pos \in {"load_in", "load_out"}
    /\ ActiveRegions("Pg") = 2


\* ---------------------------------------------------------- claims on Spec
DiscoverOps == MetaKeys \cup {"discover"}
Spawns(d) == child.st = "none" /\ child'.st # "none" /\ call'.d = d
Completes == outcome' # outcome /\ outcome'.kind # "none"

\* C1: once a definition has a cached record, the record never changes, no
\* further discovery subprocess is started for it, and every discover() call and
\* metadata read returns that record (or its entry) without a subprocess; a
\* subprocess is started only by discover(), a metadata read or run()'s read of
\* name, never by add() or by the resource accessors.
C1_DiscoveryMemoized ==
    [][/\ \A d \in Defs : discovery[d] # NoRecord =>
            /\ discovery'[d] = discovery[d]
            /\ ~Spawns(d)
            /\ (Completes /\ outcome'.d = d /\ outcome'.op \in DiscoverOps) =>
                  /\ outcome'.kind = "return"
                  /\ ~outcome'.fresh
                  /\ outcome'.val = IF outcome'.op = "discover" THEN discovery[d]
                                    ELSE discovery[d][outcome'.op]
       /\ (child.st = "none" /\ child'.st # "none") =>
              call'.op \in DiscoverOps \cup {"run"}
       /\ (Completes /\ outcome'.op \in ActorWhitelist \cup {"directory", "add"}) =>
              child' = child /\ hist'.spawned = hist.spawned
      ]_vars

C1_Witness ==
    /\ outcome.kind = "return" /\ outcome.op = "name" /\ ~outcome.fresh
    /\ discovery[outcome.d] # NoRecord
    /\ hist.spawned = 1

\* C2: a discover() call that ran a subprocess decides by exit code first and by
\* the received list second: non-zero code -> ActorInspectionFailedError naming
\* the directory, without reading the queue; code 0 and an empty list ->
\* ActorInspectionFailedError; code 0 and several entries -> MultipleActorsError
\* naming the directory; code 0 and one entry -> that entry is returned.
C2_DiscoverOutcomes ==
    (outcome.kind # "none" /\ outcome.op = "discover" /\ outcome.fresh) =>
        IF outcome.code # 0
          THEN /\ outcome.kind = "ActorInspectionFailedError"
               /\ outcome.val = Directory(outcome.d)
               /\ outcome.got = NotRead
        ELSE IF outcome.got = <<>>
          THEN outcome.kind = "ActorInspectionFailedError"
        ELSE IF Len(outcome.got) > 1
          THEN /\ outcome.kind = "MultipleActorsError"
               /\ outcome.val = Directory(outcome.d)
        ELSE /\ outcome.kind = "return"
             /\ outcome.val = outcome.got[1]
             /\ discovery[outcome.d] = outcome.got[1]

C2_Witness ==
    /\ outcome.op = "discover" /\ outcome.fresh
    /\ outcome.code # 0 /\ outcome.held # <<>>
    /\ outcome.kind = "ActorInspectionFailedError"

\* C3: the parent reads the queue, caches a record, registers into a tag,
\* returns or raises only in a step taken when the subprocess has terminated;
\* while the subprocess of discover() or run() is alive the parent stays where
\* it is.
C3_ParentWaitsForExit ==
    [][/\ (pc = "join" /\ child.st # "exited") =>
              /\ pc' = "join" /\ call' = call /\ outcome' = outcome
              /\ discovery' = discovery /\ tagActors' = tagActors
              /\ Len(queue') >= Len(queue)
       /\ (pc = "run_join" /\ runchild.st # "exited") =>
              /\ pc' = "run_join" /\ call' = call /\ outcome' = outcome
              /\ child' = child
       /\ (Completes /\ outcome'.fresh) => child.st = "exited"
       /\ (discovery' # discovery \/ tagActors' # tagActors) => child.st = "exited"
       /\ pc' = "get" => child.st = "exited"
       /\ (Completes /\ outcome'.op = "run") => runchild.st = "exited"
      ]_vars

C3_Witness == pc = "join" /\ child.st = "put" /\ queue # <<>>

\* C6 (the claim as stated): run() raises LeappRuntimeError carrying the actor's
\* name and the exit code exactly when the execution subprocess exits non-zero,
\* and returns exactly when it exits with 0, cached record or not.
C6_RunRaisesRuntimeError ==
    (outcome.kind # "none" /\ outcome.op = "run") =>
        /\ (outcome.rcode # 0) <=> (outcome.kind = "LeappRuntimeError")
        /\ (outcome.rcode = 0) <=> (outcome.kind = "return")
        /\ outcome.kind = "LeappRuntimeError" =>
              \E r \in Records : outcome.val = <<r.name, outcome.rcode>>

\* C9: a definition with a cached record is exactly once in the actors of every
\* tag of the record, and no definition is twice in any tag's actors.
Count(x, tup) == Cardinality({i \in 1..Len(tup) : tup[i] = x})
C9_TagsRegisteredOnce ==
    /\ \A d \in Defs : discovery[d] # NoRecord =>
          \A i \in 1..Len(discovery[d].tags) :
              Count(d, tagActors[discovery[d].tags[i]]) = 1
    /\ \A t \in Tags, d \in Defs : Count(d, tagActors[t]) <= 1

C9_Witness ==
    /\ discovery["d1"] = Meta("b", <<"t2", "t2">>)
    /\ discovery["d2"] = Meta("a", <<"t1", "t2">>)
    /\ Len(tagActors["t2"]) = 2
    /\ outcome.op = "tags" /\ ~outcome.fresh

\* C10 (the claim as stated): every discovery has exactly one send by the child
\* and exactly one receive by the parent.
C10_ExactlyOneSendAndReceive ==
    (outcome.kind # "none" /\ outcome.fresh) =>
        outcome.sends = 1 /\ outcome.recvs = 1

\* C10 (amended): the queue never holds more than one item and the child sends
\* at most once; the parent receives only after the child has exited, at most
\* once: not at all when the exit code is non-zero, exactly once (what the
\* child sent) when it is 0.
C10_AtMostOneSendReceiveAfterExit ==
    /\ Len(queue) <= QueueSize
    /\ hist.sends <= 1
    /\ pc = "get" => child.st = "exited"
    /\ (outcome.kind # "none" /\ outcome.fresh) =>
          /\ outcome.sends <= 1 /\ outcome.recvs <= 1
          /\ (outcome.recvs = 1) <=> (outcome.code = 0)
          /\ outcome.recvs = 1 => (outcome.sends = 1 /\ outcome.held = <<outcome.got>>)

C10_Witness ==
    /\ outcome.fresh /\ outcome.code = 0 /\ outcome.recvs = 1 /\ outcome.sends = 1
    /\ outcome.kind = "return"


\* ------------------------------------------------------ claims on SpecLive
\* C11 (the claim as stated): whenever the discovery subprocess has terminated,
\* with any exit code and with or without a result sent, the parent's
\* discover() eventually returns or raises.
C11_DiscoverTerminates ==
    (pc \in {"join", "get"} /\ child.st = "exited") ~> (pc = "idle")

\* ------------------------------------------------------- claims on SpecCtx
RegionLeft == ctxres.kind \in {"returned", "body_exception", "KeyError"}

\* C4 (the claim as stated): when a region has been left, PATH, LEAPP_FILES and
\* LEAPP_TOOLS equal their pre-entry values (absent again when they were
\* absent), the working directory is the pre-entry one, and an exception of the
\* body is the exception the caller gets.
C4_EnvironmentRestored ==
    (~region.active /\ RegionLeft) =>
        /\ environ = pre.environ
        /\ cwd = pre.cwd
        /\ ctxres.body = "raised" => ctxres.kind = "body_exception"

\* C12 (the claim as stated): when a region has been left, the names in the
\* shared actor-library namespace are the names it held at entry.
C12_NamespaceRestored ==
    (~region.active /\ RegionLeft) => actorlib = pre.actorlib

\* C13 (the claim as stated): when a region has been left, every name of the
\* module registry maps to what it mapped to at entry, or to nothing when it
\* was not registered, also when two libraries provide the same name.
C13_ModulesRestored ==
    (~region.active /\ RegionLeft) => sysmodules = pre.sysmodules


\* ------------------------------------------------------ claims on SpecField
Rejected == ferr # NoErr /\ ferr.exc = ModelViolationError

RECURSIVE CarriesOffset(_)
CarriesOffset(value) ==
    \/ value.t = "datetime" /\ ~NoUtcOffset(value)
    \/ /\ value.t \in {"list", "tuple"}
       /\ \E i \in 1..Len(value.items) : CarriesOffset(value.items[i])

\* C5 (the claim as stated): a model value that to_builtin accepts, other than
\* one carrying a DateTime with a non-zero UTC offset, comes back from to_model
\* on the produced mapping without an exception and equal to the original.
C5_RoundTripEqual ==
    (fop = "round_trip" /\ ~CarriesOffset(forig)) =>
        ferr = NoErr /\ PyEq(fobj, forig)

\* C7: a required field without a default, of any kind, given a source mapping
\* without its entry, raises ModelViolationError in to_model and in
\* from_initialization and leaves the target attribute unassigned.
C7_RequiredWithoutValueRaises ==
    (/\ fop \in {"to_model", "from_initialization"}
     /\ fld.required /\ fld.default = Missing /\ fsrc = NoValue) =>
        Rejected /\ fobj = NoValue

C7_Witness ==
    /\ fop = "to_model" /\ fld.kind = "Model"
    /\ fld.required /\ fld.default = Missing /\ fsrc = NoValue
    /\ ferr = Violation("missing", FieldName) /\ fobj = NoValue

NullElement ==
    /\ fld.kind = "List" /\ ~fld.elem.allow_null
    /\ fsrc.t \in {"list", "tuple"}
    /\ \E i \in 1..Len(fsrc.items) : fsrc.items[i] = None

\* C8: a null value on a field with allow_null false, and a null element of a
\* List whose element field has allow_null false, raise ModelViolationError in
\* from_initialization, to_builtin and to_model; on a field with allow_null
\* true a null value raises nothing and is the value each operation stores.
C8_NullRejectedOrPassedThrough ==
    fop \in {"from_initialization", "to_model", "to_builtin"} =>
        /\ (fsrc = None /\ ~fld.allow_null) => Rejected
        /\ NullElement => Rejected
        /\ (fsrc = None /\ fld.allow_null) =>
              /\ ferr = NoErr
              /\ IF fop = "to_builtin" THEN fdict = None ELSE fobj = None

C8_Witness ==
    /\ fop = "to_model" /\ NullElement
    /\ fsrc = PyList(<<PyInt(1), None>>)
    /\ ferr = Violation("null", <<"f", 1>>)

\* The value an operation resolves and validates: the entry or attribute of
\* the source, else the default (to_model, from_initialization) or None
\* (to_builtin).
Presented ==
    IF fsrc # NoValue THEN fsrc
    ELSE IF fop = "to_builtin" THEN None ELSE fld.default

Validated == fop \in {"from_initialization", "to_model", "to_builtin"}

\* C15 (the claim as stated): a List field given a list or tuple of n elements
\* raises the count violation exactly when n < minimum, or maximum is set and
\* n > maximum, maximum = 0 included, in both representations; the violation
\* states the minimum, the maximum and the count.
C15_CountWithinBounds ==
    (Validated /\ fld.kind = "List" /\ Presented.t \in {"list", "tuple"}) =>
        LET n == Len(Presented.items)
            within == fld.minimum <= n /\ (fld.maximum = NoBound \/ n <= fld.maximum)
        IN IF within THEN ~(Rejected /\ ferr.kind = "count")
           ELSE /\ Rejected /\ ferr.kind = "count" /\ ferr.name = FieldName
                /\ ferr.minimum = fld.minimum /\ ferr.count = n
                /\ fld.maximum # NoBound => ferr.maximum = fld.maximum

\* C15: a List with maximum = 0 has taken a list of one element.
C15_ZeroMaximumUnchecked ==
    /\ fop = "to_model" /\ fld.kind = "List" /\ fld.maximum = 0
    /\ fsrc = PyList(<<PyInt(1)>>)
    /\ ferr = NoErr /\ fobj = PyList(<<PyInt(1)>>)

\* The presented value is one of the field's choices (Python's `in`).
InChoices ==
    \E i \in 1..Len(fld.choices) : PyEq(Presented, fld.choices[i])

\* The presented value has the base type of the enum field.
HasBaseType == IsInstance(Presented, ModelTypes(BaseKind(fld.kind)))

Stored == IF fop = "to_builtin" THEN fdict = Presented ELSE fobj = Presented

\* C16 (the claim as stated): on an enum field, in both representations, every
\* present non-null value that is not one of the choices raises the
\* ModelViolationError that lists the allowed values; a choice of the base type
\* is accepted; null and Missing are never rejected by the choice check.
C16_NonChoiceListsAllowedValues ==
    (Validated /\ fld.kind \in EnumKinds) =>
        /\ (Presented \notin {None, Missing} /\ ~InChoices) =>
              ferr = ChoiceViolation(FieldName, fld.choices)
        /\ (InChoices /\ HasBaseType) => ferr = NoErr /\ Stored
        /\ Presented \in {None, Missing} => ~(Rejected /\ ferr.kind = "choice")

\* C16, as the code has it: a non-choice is always rejected; the violation
\* lists the allowed values when the value has the base type, and is the type
\* violation of the base field otherwise.
C16_NonChoiceRejected ==
    (Validated /\ fld.kind \in EnumKinds) =>
        /\ (Presented \notin {None, Missing} /\ ~InChoices) =>
              IF HasBaseType THEN ferr = ChoiceViolation(FieldName, fld.choices)
              ELSE ferr = Violation("type", FieldName)
        /\ (InChoices /\ HasBaseType) => ferr = NoErr /\ Stored
        /\ Presented \in {None, Missing} => ~(Rejected /\ ferr.kind = "choice")

\* C16: an integer that is not a choice of a NumberEnum is rejected with the
\* list of the two choices.
C16_Witness ==
    /\ fop = "from_initialization" /\ fld.kind = "NumberEnum"
    /\ fsrc = PyInt(2)
    /\ ferr = ChoiceViolation(FieldName, <<PyInt(1), PyFloat(3)>>)
    /\ fobj = NoValue

\* The presented value has the kind a Model field takes in the representation
\* the operation reads: a mapping in to_model, an instance of the model type
\* in from_initialization and to_builtin.
RightKind ==
    IF fop = "to_model" THEN Presented.t = "dict"
    ELSE Presented.t = "model" /\ Presented.cls = "M"

\* C17 (the claim as stated): a Model field raises ModelViolationError for
\* every present non-null value of the wrong kind, falsy ones such as 0, ''
\* and [] included, in both representations; nothing but a mapping or an
\* instance, null on a nullable field, or Missing passes.
C17_WrongKindRejected ==
    (Validated /\ fld.kind = "Model") =>
        /\ (Presented \notin {None, Missing} /\ ~RightKind) => Rejected
        /\ ferr = NoErr => \/ RightKind
                           \/ Presented = None /\ fld.allow_null
                           \/ Presented = Missing

\* C17: from_initialization has stored the integer 0 in a Model field.
C17_FalsyStored ==
    /\ fop = "from_initialization" /\ fld.kind = "Model"
    /\ fsrc = PyInt(0) /\ ferr = NoErr /\ fobj = PyInt(0)

\* C17: to_model on the empty string ends in a TypeError.
C17_FalsyTypeError ==
    /\ fop = "to_model" /\ fld.kind = "Model"
    /\ fsrc = PyStr(<<>>) /\ ferr = Raised("TypeError", FieldName)

\* C18 (the claim as stated): a List field raises ModelViolationError for
\* every present value that is neither a list nor a tuple, 0, False, '' and {}
\* included, in from_initialization, to_builtin and to_model; no such value is
\* accepted or reaches the element conversion.
C18_NonListRejected ==
    (/\ Validated /\ fld.kind = "List"
     /\ Presented \notin {None, Missing}
     /\ Presented.t \notin {"list", "tuple"}) => Rejected

\* C18: from_initialization has stored the empty string in a List field.
C18_FalsyStored ==
    /\ fop = "from_initialization" /\ fld.kind = "List"
    /\ fsrc = PyStr(<<>>) /\ ferr = NoErr /\ fobj = PyStr(<<>>)

\* C18: to_builtin has turned an empty mapping held by a List field into [].
C18_FalsyConverted ==
    /\ fop = "to_builtin" /\ fld.kind = "List"
    /\ fsrc = Dict(NoValue) /\ ferr = NoErr /\ fdict = PyList(<<>>)

\* C19 (the claim as stated): in both directions and for every kind, a null
\* value on a non-nullable field is reported as the null violation and Missing
\* on a required field as the missing-required violation, never as a type,
\* choice, count, list or mapping violation.
C19_NullThenMissingThenKind ==
    Validated =>
        /\ (Presented = None /\ ~fld.allow_null) =>
              ferr = Violation("null", FieldName)
        /\ (Presented = Missing /\ fld.required) =>
              ferr = Violation("missing", FieldName)

\* C19: to_model on a required String without its entry reports a type
\* violation.
C19_MissingReportedAsType ==
    /\ fop = "to_model" /\ fld.kind = "String" /\ fld.required
    /\ fld.default = Missing /\ fsrc = NoValue
    /\ ferr = Violation("type", FieldName)

\* C20: to_model assigns Missing, without conversion or validation, exactly
\* when the resolved value is Missing and the field is not required, and
\* otherwise assigns what _convert_to_model returns after the builtin
\* validation; to_builtin writes the entry only when the converted result is
\* not Missing and otherwise leaves the mapping without the key.
C20_MissingSkipsConversion ==
    /\ fop = "to_model" =>
          IF Presented = Missing /\ ~fld.required
            THEN ferr = NoErr /\ fobj = Missing
          ELSE LET invalid == ValidateBuiltin(fld, Presented, FieldName)
                   converted == ConvertToModel(fld, Presented, FieldName)
               IN /\ invalid # NoErr => ferr = invalid
                  /\ IF converted.ok THEN ferr = NoErr /\ fobj = converted.val
                     ELSE ferr = converted.err /\ fobj = NoValue
    /\ fop = "to_builtin" =>
          LET converted == ConvertFromModel(fld, Presented, FieldName)
          IN IF converted.ok /\ converted.val # Missing
               THEN ferr = NoErr /\ fdict = converted.val
             ELSE fdict = NoValue

\* C20: to_model on a mapping without the entry of an optional String has
\* assigned Missing.
C20_Witness ==
    /\ fop = "to_model" /\ fld.kind = "String" /\ ~fld.required
    /\ fld.default = Missing /\ fsrc = NoValue
    /\ ferr = NoErr /\ fobj = Missing

\* C20: to_builtin on an optional attribute holding Missing has left the
\* mapping without the key.
C20_KeyNotWritten ==
    /\ fop = "to_builtin" /\ ~fld.required /\ fsrc = Missing
    /\ ferr = NoErr /\ fdict = NoValue

\* --------------------------------------------------- more claims on Spec
\* C26: when the discovery subprocess of a call ended with a non-zero exit
\* code, or sent an empty list or more than one entry, the call raises, caches
\* no record, changes no tag and starts no second subprocess; a later
\* discover() or metadata read on a definition without a record starts a new
\* subprocess.
C26_FailureCachesNothing ==
    [][/\ (/\ Completes /\ outcome'.fresh
           /\ \/ outcome'.code # 0
              \/ outcome'.got = <<>>
              \/ Len(outcome'.got) > 1) =>
              /\ outcome'.kind \in {"ActorInspectionFailedError", "MultipleActorsError"}
              /\ discovery' = discovery
              /\ discovery'[outcome'.d] = NoRecord
              /\ tagActors' = tagActors
              /\ hist'.spawned = hist.spawned
              /\ child'.st = "none"
       /\ (/\ pc = "idle" /\ call'.op \in DiscoverOps
           /\ discovery[call'.d] = NoRecord) =>
              Spawns(call'.d) /\ hist'.spawned = hist.spawned + 1
      ]_vars

\* C26: two subprocesses were started, the call of the second one failed with
\* several actors, and no record and no tag registration exists.
C26_Witness ==
    /\ outcome.fresh /\ outcome.kind = "MultipleActorsError"
    /\ hist.spawned = 2
    /\ \A d \in Defs : discovery[d] = NoRecord
    /\ \A t \in Tags : tagActors[t] = <<>>

\* ------------------------------------------------- more claims on SpecCtx
\* C21: add(kind, path) with a kind outside the whitelist raises
\* UnsupportedDefinitionKindError and changes no list; with a whitelisted kind
\* it appends the path at the end of that kind's list and changes no other
\* list; no other step changes a list, so the accessors return the paths of
\* their kind in the order of the adds.
C21_AddAppendsOrRaises ==
    [][IF build'.adds = build.adds THEN resources' = resources
       ELSE LET kind == ctxres'.arg[1]
                path == ctxres'.arg[2]
            IN IF kind \in ActorWhitelist
                 THEN /\ ctxres'.kind = "added"
                      /\ resources' = [resources EXCEPT ![kind] = @ \o <<path>>]
               ELSE /\ ctxres'.kind = "UnsupportedDefinitionKindError"
                    /\ resources' = resources]_vars

\* C21: two paths were added to tools, b after a.
C21_Witness ==
    /\ resources["tools"] = <<"a", "b">>
    /\ ctxres.kind = "added" /\ ctxres.arg = <<"tools", "b">>

\* The entries of PATH before the region was entered; a process without PATH
\* counts as one with an empty PATH.
PreEntryPath ==
    IF pre.environ["PATH"] = Absent THEN <<"">> ELSE pre.environ["PATH"]

\* The first declared path of a kind under repo_dir/directory, or the value
\* the marker had before the region when the actor declares none.
MarkerInBody(name, kind) ==
    IF resources[kind] # <<>> THEN <<"repo", "actor", resources[kind][1]>>
    ELSE pre.environ[name]

\* C23: while the body of a region runs, and until the body itself changes
\* them, PATH is the pre-entry PATH followed by the tool directories in the
\* order of their declaration, the files and tools markers are the first
\* declared path of their kind or else their pre-entry value, and the working
\* directory is the actor's directory.
C23_BodyEnvironment ==
    (region.active /\ ~region.touched) =>
        /\ environ["PATH"] =
              PreEntryPath \o [i \in 1..Len(resources["tools"]) |->
                                 <<"repo", "actor", resources["tools"][i]>>]
        /\ environ["LEAPP_FILES"] = MarkerInBody("LEAPP_FILES", "files")
        /\ environ["LEAPP_TOOLS"] = MarkerInBody("LEAPP_TOOLS", "tools")
        /\ cwd = <<"repo", "actor">>

\* C23: a region is active for an actor with the tools b and a, declared in
\* this order, in a process whose PATH was /bin.
C23_Witness ==
    /\ region.active /\ ~region.touched
    /\ resources["tools"] = <<"b", "a">>
    /\ pre.environ["PATH"] = <<"/bin">>
    /\ environ["PATH"] = <<"/bin", <<"repo", "actor", "b">>, <<"repo", "actor", "a">>>>
    /\ environ["LEAPP_TOOLS"] = <<"repo", "actor", "b">>
    /\ environ["LEAPP_FILES"] = pre.environ["LEAPP_FILES"]

\* C27 (the claim as stated, for an entry that failed part-way): when
\* library loading or the change of directory has raised, so that no region
\* is active, PATH, the markers, the working directory, the shared namespace
\* and the module registry hold the values they had before the entry.
C27_FailedEntryRestored ==
    (~region.active /\ ctxres.kind = "entry_failed") =>
        /\ environ = pre.environ
        /\ cwd = pre.cwd
        /\ actorlib = pre.actorlib
        /\ sysmodules = pre.sysmodules

\* C27: the entry has raised and PATH still ends with the actor's tool
\* directory.
C27_FailedEntryLeavesPath ==
    /\ ~region.active /\ ctxres.kind = "entry_failed"
    /\ pre.environ["PATH"] = <<"/bin">>
    /\ environ["PATH"] = <<"/bin", <<"repo", "actor", "a">>>>

\* ------------------------------------------------ more claims on SpecProc
\* C22: no step taken while the parent is in discover() or in run(), or is
\* about to call one, enters or leaves a region in the parent: the regions of
\* inspection and execution are entered by the subprocesses only.
C22_ParentStateUntouched ==
    [][proc["P0"].pos \in {"idle", "djoin", "rjoin"} =>
          proc'["P0"].own = proc["P0"].own]_vars

\* C22: the execution subprocess runs the actor inside its region while the
\* parent, which has entered none in its discover() and its run(), waits.
C22_Witness ==
    /\ proc["P0"].pos = "rjoin" /\ OwnRegions("P0") = 0
    /\ proc["Pe"].pos = "actor" /\ OwnRegions("Pe") = 1
    /\ proc["Pd"].st = "exited" /\ proc["P0"].cached

\* C25: in the execution subprocess load() comes first, then the region is
\* entered, then the actor class is resolved by the definition's name, then
\* it is instantiated and its entry point invoked; the entry point runs only
\* inside the region; the region is left before the subprocess ends, also
\* when the resolution fails or the entry point raises, and the exit code is
\* then not 0.
C25_ExecutionOrder ==
    [][LET a == proc["Pe"]
           b == proc'["Pe"]
       IN /\ (b.pos = "ctx" /\ a.pos # "ctx") => a.pos \in {"load", "load_out"}
          /\ (b.pos = "name" /\ a.pos # "name") => a.pos = "ctx" /\ b.own = 1
          /\ (b.pos = "actor" /\ a.pos # "actor") =>
                a.pos \in {"name", "wait"} /\ b.own = 1
          /\ (b.pos = "ctx_out" /\ a.pos # "ctx_out") =>
                /\ a.pos \in {"name", "wait", "actor"} /\ b.own = 1
                /\ a.pos \in {"name", "wait"} => ~b.ok
          /\ (b.st = "exited" /\ a.st = "running") =>
                a.pos = "ctx_out" /\ b.own = 0 /\ b.ok = a.ok]_vars

\* C25: the module was loaded, the class resolved, and the entry point has
\* raised: the region is still to be left and the exit code will not be 0.
C25_Witness ==
    /\ proc["Pe"].pos = "ctx_out" /\ OwnRegions("Pe") = 1
    /\ proc["Pe"].module /\ proc["Pe"].cached /\ ~proc["Pe"].ok

\* C30 (the claim as stated): the discovery subprocess reports exactly the
\* actor classes whose declared path equals the definition's full path; a
\* class declared at another path, a parent directory or another substring of
\* the full path included, is not reported.
C30_OnlyEqualPathsReported ==
    \A c \in {"Pd", "Pg"} : proc[c].st = "exited" =>
        proc[c].sent = SelectSeq(Registered(proc[c]), LAMBDA path : path = FullPath)

\* C30: a class declared at the parent directory /r is reported next to the
\* actor's own class.
C30_ParentDirectoryReported ==
    /\ proc["Pd"].st = "exited" /\ setup.other = <<"/", "r">>
    /\ proc["Pd"].sent = <<FullPath, <<"/", "r">>>>
    /\ ~proc["Pd"].ok

\* ------------------------------------------------ more claims on SpecField
\* C24: constructing the abstract Field, an enum field whose choices is not a
\* list or tuple, a List whose elem_field is not a Field instance, a Model
\* field whose model_type is not a subclass of the schema container, or Nested
\* raises ModelMisuseError and never ModelViolationError; every other
\* construction of a concrete field returns the field.
C24_MisuseAtConstruction ==
    fop = "construct" =>
        LET cls == fsrc.cls
            arg == fsrc.arg
            misuse ==
                \/ cls \in {"Field", "Nested"}
                \/ cls \in EnumKinds /\ arg.t \notin {"list", "tuple"}
                \/ cls = "List" /\ arg.t # "field"
                \/ cls = "Model" /\ ~(arg.t = "type" /\ arg.cls = "M")
        IN IF misuse THEN ferr.exc = ModelMisuseError /\ fld = NoField
           ELSE ferr = NoErr /\ fld.kind = cls

\* C24: a List was given the class String, not an instance, as elem_field.
C24_Witness ==
    /\ fop = "construct" /\ fsrc.cls = "List"
    /\ fsrc.arg = [t |-> "type", cls |-> "String"]
    /\ ferr.exc = ModelMisuseError /\ fld = NoField

\* What the operation makes of the element i of the presented list when the
\* element is taken alone, under the name it has in the list.
ElemErr(i) ==
    LET item == Presented.items[i]
        name == Append(FieldName, i - 1)
    IN IF fop = "from_initialization" THEN ValidateModel(fld.elem, item, name)
       ELSE LET r == IF fop = "to_model" THEN ConvertToModel(fld.elem, item, name)
                     ELSE ConvertFromModel(fld.elem, item, name)
            IN IF r.ok THEN NoErr ELSE r.err

\* C28 (the claim as stated): on a List value the count violation comes before
\* any element is examined, and otherwise the violation raised is the one of
\* the lowest index whose element is invalid, under the name name[idx].
C28_LowestFailingIndex ==
    (Validated /\ fld.kind = "List" /\ Presented.t \in {"list", "tuple"}) =>
        LET count == CountCheck(fld, Presented, FieldName)
            failing == {i \in 1..Len(Presented.items) : ElemErr(i) # NoErr}
            lowest == CHOOSE i \in failing : \A j \in failing : i <= j
        IN IF count # NoErr THEN ferr = count
           ELSE IF failing # {} THEN ferr = ElemErr(lowest)
           ELSE ferr = NoErr

\* C28: to_model on a list of an unparsable date and an integer names the
\* integer's index.
C28_HigherIndexNamed ==
    /\ fop = "to_model" /\ fld.kind = "List" /\ fld.elem.kind = "DateTime"
    /\ fsrc = PyList(<<PyStr(<<"x">>), PyInt(1)>>)
    /\ ferr = Violation("type", <<"f", 1>>)

\* What to_builtin has written for a DateTime value: isoformat() and "Z".
WroteIsoZ == ferr = NoErr /\ fdict = PyStr(IsoFormat(forig) \o <<"Z">>)

\* What to_builtin has written for a DateTime value: null.
WroteNull == ferr = NoErr /\ fdict = None

\* A later to_model of the mapping that holds null for a non-nullable field
\* raises the null violation.
NullComesBack ==
    (/\ fop = "round_trip" /\ fld.kind = "DateTime" /\ ~fld.allow_null
     /\ forig.t = "datetime" /\ fdict = None) =>
        ferr = Violation("null", FieldName)

\* C29 (the claim as stated): to_builtin on a DateTime field writes
\* isoformat() followed by "Z" when the value carries no UTC offset, and
\* stores null, raising nothing, when the value carries a UTC offset, also on
\* a non-nullable field; a later to_model of that mapping raises the null
\* violation.
C29_OffsetGivesNull ==
    /\ (fop = "to_builtin" /\ fld.kind = "DateTime" /\ forig.t = "datetime") =>
          IF forig.tz = "naive" THEN WroteIsoZ ELSE WroteNull
    /\ NullComesBack

\* C29, as the code has it: isoformat() and "Z" are written when the value is
\* naive or its UTC offset is zero, and null is stored when its UTC offset is
\* not zero.
C29_NonZeroOffsetGivesNull ==
    /\ (fop = "to_builtin" /\ fld.kind = "DateTime" /\ forig.t = "datetime") =>
          IF forig.tz \in {"naive", "utc0"} THEN WroteIsoZ ELSE WroteNull
    /\ NullComesBack

\* C29: a value with the offset +01:00 on a non-nullable field became null in
\* the mapping, and to_model of the mapping has raised the null violation.
C29_Witness ==
    /\ fop = "round_trip" /\ fld.kind = "DateTime" /\ ~fld.allow_null
    /\ forig = DT(0, 5, "plus1") /\ fdict = None
    /\ ferr = Violation("null", FieldName)

\* C31: when from_initialization or to_model raises, the attribute of the
\* target is not assigned; when to_builtin raises, the target mapping is
\* unchanged; no operation modifies the source it reads (the source mapping,
\* the source instance, or the mapping a round trip reads back).
C31_ErrorsLeaveTargetAndSource ==
    [][/\ (fop = "none" /\ fop' \in {"from_initialization", "to_model", "to_builtin"}) =>
            /\ fsrc' = fsrc
            /\ ferr' # NoErr => (fobj' = fobj /\ fdict' = fdict)
       /\ (fop = "to_builtin" /\ fop' = "round_trip") =>
            /\ fdict' = fdict /\ fsrc' = fsrc
            /\ ferr' # NoErr => fobj' = fobj]_vars

\* C31: to_model has raised on the second element of a list whose first
\* element converts, and the attribute is still unassigned.
C31_Witness ==
    /\ fop = "to_model" /\ fld.kind = "List" /\ ferr # NoErr
    /\ fsrc.t = "list" /\ Len(fsrc.items) = 2
    /\ ferr.name = Append(FieldName, 1)
    /\ fobj = NoValue

============================================================================
